---- MODULE Spec2Model ----
(***************************************************************************)
(* Model of sdks/python/apache_beam/runners/portability/stager.py:         *)
(* Stager.stage_job_resources and the helpers it calls.  One call of       *)
(* stage_job_resources is followed from its first statement to its return  *)
(* or to the exception that leaves it.  The file system, the package index *)
(* and the staging backend (stage_artifact, commit_manifest) are the       *)
(* environment: their outcomes are drawn nondeterministically.  Each      *)
(* option is drawn when the call first reads it.  The arguments that exist *)
(* for tests only (build_setup_args, populate_requirements_cache) keep     *)
(* their defaults.                                                         *)
(*                                                                         *)
(* SpecJars runs Stager._stage_jar_packages several times on one list.     *)
(* SpecLicenses follows one run of the main block of                       *)
(* sdks/python/container/license_scripts/pull_licenses_py.py.              *)
(***************************************************************************)
EXTENDS Integers, Sequences, FiniteSets, TLC

VARIABLES
  pc,          \* the step of stage_job_resources that runs next
  error,       \* the exception that left the call ("none" while it runs)
  at,          \* the step that raised it
  token,       \* the retrieval token the call returned
  resources,   \* the local list `resources`
  events,      \* every external call made so far, in order
  temp_exists, \* whether temp_dir exists on disk
  cache,       \* file names in the requirements cache directory
  downloaded,  \* the cache files this call's pip download produced
  pip_log,     \* outcome of every run of _populate_requirements_cache's body
  manifest,    \* lines written to temp_dir/extra_packages.txt
  options,     \* the option values the call has read so far
  jar_packages,  \* the argument of repeated runs of _stage_jar_packages
  jar_runs,      \* what each of these runs returned or raised
  lpc,           \* pull_licenses_py: the statement of the main block to run next
  dependencies,  \* the list run_pip_licenses() returned
  dep_config,    \* dep_config['pip_dependencies'] of dep_urls_py.yaml
  dep_index,     \* position of the `for dep in dependencies` loop
  attempt_number,  \* attempts the retry decorator made of the current call
  no_licenses,   \* the list no_licenses
  license_dir,   \* the directories under license_dir and the files of each
  temp_dirs,     \* the temp_license_<dep> directories that exist
  raised,        \* the exception that ended the script
  license_calls  \* the runs of copy_license_files and pull_from_url so far

stagerVars == <<pc, error, at, token, resources, events, temp_exists, cache,
                downloaded, pip_log, manifest, options>>

jarVars == <<jar_packages, jar_runs>>

licenseVars == <<lpc, dependencies, dep_config, dep_index, attempt_number,
                 no_licenses, license_dir, temp_dirs, raised, license_calls>>

vars == <<stagerVars, jarVars, licenseVars>>

----------------------------------------------------------------------------
(* Bounds of the model. *)

\* longest extra_packages / jar_packages list drawn as input
MaxPkgs == 2

----------------------------------------------------------------------------
(* File names and paths.  A file name is a stem and an extension, a path   *)
(* is a scheme ("" for a local path), the directory components and the     *)
(* last component.                                                         *)

Name(stem, ext) == [stem |-> stem, ext |-> ext]

Path(scheme, dir, name) == [scheme |-> scheme, dir |-> dir, name |-> name]

REQUIREMENTS_FILE == Name("requirements", ".txt")

WORKFLOW_TARBALL_FILE == Name("workflow", ".tar.gz")

EXTRA_PACKAGES_FILE == Name("extra_packages", ".txt")

PICKLED_MAIN_SESSION_FILE == Name("pickled_main_session", "")

DATAFLOW_SDK_TARBALL_FILE == Name("dataflow_python_sdk", ".tar")

DATAFLOW_WORKER_JAR == Name("dataflow-worker", ".jar")

\* os.path.basename / the second half of FileSystems.split
basename(p) == p.name

\* FileSystems.join(dir_path, name) and os.path.join(dir_path, name)
join(p, name) == Path(p.scheme, Append(p.dir, p.name), name)

\* FileSystems.split(path) = (parent, last component)
split(p) ==
  <<Path(p.scheme, SubSeq(p.dir, 1, Len(p.dir) - 1),
         IF p.dir = <<>> THEN Name("", "") ELSE p.dir[Len(p.dir)]),
    p.name>>

\* str.endswith on a file name or on a path
endswith(name, suffix) == name.ext = suffix

\* Stager._is_remote_path: path.find('://') != -1
is_remote_path(p) == p.scheme # ""

None == [set |-> FALSE, val |-> <<>>]

Some(v) == [set |-> TRUE, val |-> v]

\* all sequences over S of length at most n
SeqsUpTo(S, n) == UNION {[1..k -> S] : k \in 0..n}

\* every order in which a directory listing can return the set S
Orders(S) ==
  {s \in [1..Cardinality(S) -> S] : \A i, j \in DOMAIN s : i # j => s[i] # s[j]}

----------------------------------------------------------------------------
(* The environment: what is on the local disk when the call starts.        *)

Dir(d) == <<Name(d, "")>>

staging_location == Path("gs", Dir("bucket"), Name("staging", ""))

TempDir == Path("", Dir("tmp"), Name("tmpXYZ", ""))

\* the directory tempfile.mkdtemp(dir=temp_dir) creates
staging_temp_dir == join(TempDir, Name("tmpSUB", ""))

RequirementsOk == Path("", Dir("job"), Name("requirements", ".txt"))

RequirementsMissing == Path("", Dir("job"), Name("reqs_missing", ".txt"))

SetupOk == Path("", Dir("job"), Name("setup", ".py"))

SetupMissing == Path("", Dir("gone"), Name("setup", ".py"))

SetupMisnamed == Path("", Dir("job"), Name("build", ".py"))

\* --setup_file setup.py: the file of the current directory, named without
\* a directory part
SetupRelative == Path("", <<>>, Name("setup", ".py"))

LocalTar == Path("", Dir("a"), Name("pkg-1.0", ".tar.gz"))

RemoteZip == Path("gs", Dir("x"), Name("dep", ".zip"))

BadExt == Path("", Dir("a"), Name("notes", ".txt"))

MissingWhl == Path("", Dir("a"), Name("absent", ".whl"))

LocalJar == Path("", Dir("a"), Name("udf", ".jar"))

RemoteJar == Path("gs", Dir("x"), Name("lib", ".jar"))

BadJar == Path("", Dir("a"), Name("udf", ".zip"))

MissingJar == Path("", Dir("a"), Name("absent", ".jar"))

SdkDefault == Path("", <<>>, Name("default", ""))

SdkContainer == Path("", <<>>, Name("container", ""))

SdkEmpty == Path("", <<>>, Name("", ""))

SdkRemoteTar == Path("https", Dir("host"), Name("sdk", ".tar.gz"))

SdkRemoteWhl == Path("https", Dir("host"), Name("apache_beam-2", ".whl"))

SdkRemoteOddWhl == Path("https", Dir("host"), Name("other-2", ".whl"))

SdkLocalTar == Path("", Dir("sdk"), Name("beam", ".tar.gz"))

SdkLocalWhl == Path("", Dir("sdk"), Name("apache_beam-2", ".whl"))

SdkLocalOddWhl == Path("", Dir("sdk"), Name("other-2", ".whl"))

SdkLocalDir == Path("", Dir("opt"), Name("sdkdir", ""))

SdkLocalMissing == Path("", Dir("sdk"), Name("nowhere", ".tar.gz"))

WorkerJar == Path("", Dir("w"), Name("worker", ".jar"))

\* os.path.isfile
LocalFiles ==
  {RequirementsOk, SetupOk, SetupMisnamed, SetupRelative, LocalTar, BadExt,
   LocalJar, BadJar, SdkLocalTar, SdkLocalWhl, SdkLocalOddWhl,
   join(SdkLocalDir, DATAFLOW_SDK_TARBALL_FILE), WorkerJar}

isfile(p) == p \in LocalFiles

\* os.path.isdir
isdir(p) == p = SdkLocalDir

\* files the requirements cache may hold before the call, and files a
\* pip download of the requirements may add to it
CacheOld == Name("pkg-1.0", ".tar.gz")

CacheDep == Name("dep-2.0", ".tar.gz")

ExtraUniverse == {LocalTar, RemoteZip, BadExt, MissingWhl}

JarUniverse == {LocalJar, RemoteJar, BadJar, MissingJar}

\* the package lists drawn as input name no package twice
NoRepeat(s) == \A i, j \in DOMAIN s : i # j => s[i] # s[j]

ExtraInputs == {s \in SeqsUpTo(ExtraUniverse, MaxPkgs) : NoRepeat(s)}

JarInputs == {s \in SeqsUpTo(JarUniverse, MaxPkgs) : NoRepeat(s)}

----------------------------------------------------------------------------
(* The log of external calls.                                              *)

NoPath == Path("", <<>>, Name("", ""))

Event(op, path, step, out) ==
  [op |-> op, path |-> path, step |-> step, out |-> out]

\* self.stage_artifact(local_path, join(staging_location, name))
StageEvent(name, step, out) ==
  Event("stage_artifact", join(staging_location, name), step, out)

\* stage_artifact called for names[1], names[2], ... in this order; with
\* k > 0 the k-th call raises and none follows
StageRun(names, step, k) ==
  [i \in 1..(IF k = 0 THEN Len(names) ELSE k) |->
     StageEvent(names[i], step, IF i = k THEN "raised" ELSE "ok")]

\* exception types a failing collaborator can raise
ErrorKinds == {"RuntimeError", "IOError"}

EventsOf(op) == SelectSeq(events, LAMBDA e : e.op = op)

StageEvents == EventsOf("stage_artifact")

----------------------------------------------------------------------------
(* Initial state: stage_job_resources has been called and nothing ran yet.  *)

NoOptions ==
  [staging_location |-> None, requirements_file |-> None, setup_file |-> None,
   extra_packages |-> None, jar_packages |-> None, save_main_session |-> FALSE,
   has_sdk_location |-> FALSE, sdk_location |-> None,
   dataflow_worker_jar |-> None]

\* no run of _stage_jar_packages on its own is under way
JarsIdle == jar_packages = <<>> /\ jar_runs = <<>>

NoException == [type |-> "none", license_list |-> <<>>]

\* the license script is not running
LicensesIdle ==
  /\ lpc = "idle"
  /\ dependencies = <<>>
  /\ dep_config = <<>>
  /\ dep_index = 0
  /\ attempt_number = 0
  /\ no_licenses = <<>>
  /\ license_dir = <<>>
  /\ temp_dirs = {}
  /\ raised = NoException
  /\ license_calls = <<>>

StagerInit ==
  /\ pc = "start"
  /\ error = "none"
  /\ at = "none"
  /\ token = "none"
  /\ resources = <<>>
  /\ events = <<>>
  /\ temp_exists = FALSE
  /\ cache = {}
  /\ downloaded = {}
  /\ pip_log = <<>>
  /\ manifest = None
  /\ options = NoOptions

Init == StagerInit /\ JarsIdle /\ LicensesIdle

\* a bug that handles the jar packages before the extra packages
BlocksJarFirst ==
  <<"requirements", "setup", "jar", "extra", "session", "sdk", "worker_jar",
    "cleanup">>

\* the blocks of stage_job_resources, in the order of its statements
Blocks ==
  <<"requirements", "setup", "extra", "jar", "session", "sdk", "worker_jar",
    "cleanup">>

\* the block that runs when `block` is over
following(block) ==
  LET i == CHOOSE j \in DOMAIN Blocks : Blocks[j] = block IN Blocks[i + 1]

\* a bug that commits the manifest on the way out of a failed call
RaiseCommitting(step, kind, evs) ==
  /\ pc' = "failed"
  /\ error' = kind
  /\ at' = step
  /\ events' = events \o evs
                 \o <<Event("commit_manifest", staging_location, step, "token-1")>>
  /\ token' = token
  /\ UNCHANGED <<jarVars, licenseVars>>

\* an exception leaves stage_job_resources from `step`, after the calls evs
Raise(step, kind, evs) ==
  /\ pc' = "failed"
  /\ error' = kind
  /\ at' = step
  /\ events' = events \o evs
  /\ token' = token
  /\ UNCHANGED <<jarVars, licenseVars>>

\* the step ends after the calls evs and `next` is the step that follows
Goto(next, evs) ==
  /\ pc' = next
  /\ events' = events \o evs
  /\ UNCHANGED <<error, at, token>>
  /\ UNCHANGED <<jarVars, licenseVars>>

----------------------------------------------------------------------------
(* Lines 150-156: the temp directory and the required option.              *)

Begin ==
  /\ pc = "start"
  /\ temp_exists' = TRUE
  /\ \E loc \in {None, Some(staging_location)} :
       /\ options' = [options EXCEPT !.staging_location = loc]
       /\ IF loc.set THEN Goto(Blocks[1], <<>>)
                     ELSE Raise("start", "RuntimeError", <<>>)
  /\ UNCHANGED <<resources, cache, downloaded, pip_log, manifest>>

----------------------------------------------------------------------------
(* Lines 158-183: the requirements file and the requirements cache.        *)

RequirementsInputs == {None, Some(RequirementsOk), Some(RequirementsMissing)}

\* lines 159-175: check the file, stage it, make sure the cache directory exists
StageRequirementsFile ==
  /\ pc = "requirements"
  /\ \E rf \in RequirementsInputs :
       /\ options' = [options EXCEPT !.requirements_file = rf]
       /\ IF ~rf.set
            THEN Goto(following("requirements"), <<>>) /\ UNCHANGED <<resources, cache>>
            ELSE IF ~isfile(rf.val)
              THEN Raise("requirements", "RuntimeError", <<>>)
                   /\ UNCHANGED <<resources, cache>>
              ELSE \E k \in 0..1, kind \in ErrorKinds, found \in SUBSET {CacheOld} :
                     LET calls == StageRun(<<REQUIREMENTS_FILE>>, "requirements", k)
                     IN IF k = 0
                          THEN /\ Goto("populate", calls)
                               /\ resources' = Append(resources, REQUIREMENTS_FILE)
                               /\ cache' = found
                          ELSE /\ Raise("requirements", kind, calls)
                               /\ UNCHANGED <<resources, cache>>
  /\ UNCHANGED <<temp_exists, downloaded, pip_log, manifest>>

\* what one run of the pip download subprocess can end with
PipOutcomes ==
  {[type |-> "ok", returncode |-> 0],
   [type |-> "CalledProcessError", returncode |-> 1],
   [type |-> "OSError", returncode |-> 0]}

\* a bug that retries after every exception
retry_on_any_exception(exception) == exception.type # "ok"

\* retry_on_non_zero_exit: the retry filter of the pip download
retry_on_non_zero_exit(exception) ==
  exception.type = "CalledProcessError" /\ exception.returncode # 0

\* num_retries of the retry decorator on _populate_requirements_cache
num_retries == 4

\* retry.with_exponential_backoff: after a failed attempt, whether the
\* wrapped function is run again (made = attempts made so far)
with_exponential_backoff(made, exception) ==
  retry_on_non_zero_exit(exception) /\ made < num_retries

\* lines 176-179 and 480-504: one run of the pip download under the retry
\* decorator.  A run that succeeds leaves every required file in the cache,
\* a run that fails may have downloaded some of them.
PopulateRequirementsCache ==
  /\ pc = "populate"
  /\ \E out \in PipOutcomes, part \in SUBSET ({CacheDep} \ cache) :
       LET got == IF out.type = "ok" THEN {CacheDep} \ cache ELSE part
           run == <<Event("pip_download", NoPath, "populate", out.type)>>
       IN /\ pip_log' = Append(pip_log, out)
          /\ cache' = cache \cup got
          /\ downloaded' = downloaded \cup got
          /\ IF out.type = "ok" THEN Goto("stage_cache", run)
             ELSE IF with_exponential_backoff(Len(pip_log) + 1, out)
               THEN Goto("populate", run)
               ELSE Raise("populate", out.type, run)
  /\ UNCHANGED <<resources, temp_exists, manifest, options>>

\* line 180: glob.glob(os.path.join(requirements_cache_path, '*')), in
\* whatever order the directory is listed
glob_requirements_cache == Orders(cache)

\* lines 180-183: stage every file glob finds in the cache directory
StageCacheFiles ==
  /\ pc = "stage_cache"
  /\ \E pkgs \in glob_requirements_cache :
       \E k \in 0..Len(pkgs), kind \in ErrorKinds :
         LET calls == StageRun(pkgs, "stage_cache", k)
         IN IF k = 0
              THEN Goto(following("requirements"), calls) /\ resources' = resources \o pkgs
              ELSE Raise("stage_cache", kind, calls) /\ UNCHANGED resources
  /\ UNCHANGED <<temp_exists, cache, downloaded, pip_log, manifest, options>>

----------------------------------------------------------------------------
(* Lines 185-202 and 506-531: the setup file.                              *)

SetupInputs ==
  {None, Some(SetupOk), Some(SetupMissing), Some(SetupMisnamed),
   Some(SetupRelative)}

\* what `setup.py sdist` can end with: a tarball in temp_dir, a failed
\* subprocess, or no *.tar.gz in temp_dir
SdistOutcomes == {"ok", "CalledProcessError", "RuntimeError"}

\* lines 190-197: the checks made before the package is built
setup_file_error(setup_file) ==
  ~isfile(setup_file) \/ basename(setup_file) # Name("setup", ".py")

\* os.path.dirname
dirname(p) == p.dir

\* line 514: os.chdir(os.path.dirname(setup_file)) raises OSError for the
\* empty string, the dirname of a path without a directory part
chdir_raises(d) == d = <<>>

StageSetupFile ==
  /\ pc = "setup"
  /\ \E sf \in SetupInputs :
       /\ options' = [options EXCEPT !.setup_file = sf]
       /\ IF ~sf.set
            THEN Goto(following("setup"), <<>>) /\ UNCHANGED resources
            ELSE IF setup_file_error(sf.val)
              THEN Raise("setup", "RuntimeError", <<>>) /\ UNCHANGED resources
              ELSE IF chdir_raises(dirname(sf.val))
                THEN Raise("setup", "OSError", <<>>) /\ UNCHANGED resources
              ELSE \E built \in SdistOutcomes, k \in 0..1, kind \in ErrorKinds :
                     LET build == <<Event("sdist", sf.val, "setup", built)>>
                         calls == StageRun(<<WORKFLOW_TARBALL_FILE>>, "setup", k)
                     IN IF built # "ok"
                          THEN Raise("setup", built, build) /\ UNCHANGED resources
                          ELSE IF k = 0
                            THEN /\ Goto(following("setup"), build \o calls)
                                 /\ resources' = Append(resources, WORKFLOW_TARBALL_FILE)
                            ELSE /\ Raise("setup", kind, build \o calls)
                                 /\ UNCHANGED resources
  /\ UNCHANGED <<temp_exists, cache, downloaded, pip_log, manifest>>

----------------------------------------------------------------------------
(* Lines 334-468: extra packages and jar packages.                         *)

\* lines 411-414: the file name patterns --extra_package accepts
extra_package_name_ok(package) ==
  \/ endswith(basename(package), ".tar")
  \/ endswith(basename(package), ".tar.gz")
  \/ endswith(basename(package), ".whl")
  \/ endswith(basename(package), ".zip")

\* line 353: the file name pattern jar_packages accepts
jar_package_name_ok(package) == endswith(basename(package), ".jar")

\* the name check of the loop that runs in `step`
package_name_ok(step, package) ==
  IF step = "extra" THEN extra_package_name_ok(package)
                    ELSE jar_package_name_ok(package)

\* The loops of lines 352-371 and 410-439 over the first i packages: each
\* package is checked, then taken as a local file or downloaded into
\* staging_temp_dir, before the next package is looked at.  failAt is the
\* position of the package whose download raises (0: none does).
RECURSIVE ScanPackages(_, _, _, _)
ScanPackages(packages, step, failAt, i) ==
  IF i = 0
    THEN [st |-> "ok", local_packages |-> <<>>, fetched |-> <<>>]
    ELSE LET prev == ScanPackages(packages, step, failAt, i - 1)
             package == packages[i]
         IN IF prev.st # "ok" THEN prev
            ELSE IF ~package_name_ok(step, package) THEN [prev EXCEPT !.st = "bad_name"]
            ELSE IF isfile(package)
              THEN [prev EXCEPT !.local_packages = Append(@, package)]
            ELSE IF is_remote_path(package)
              THEN [prev EXCEPT !.fetched = Append(@, package),
                                !.st = IF i = failAt THEN "download_failed"
                                                     ELSE "ok"]
            ELSE [prev EXCEPT !.st = "not_found"]

\* Stager._download_file called for the packages of `fetched`, in order
DownloadEvents(fetched, step, st) ==
  [i \in DOMAIN fetched |->
     Event("download", fetched[i], step,
           IF i = Len(fetched) /\ st = "download_failed" THEN "raised" ELSE "ok")]

\* the files the downloads wrote into staging_temp_dir (one per last component)
DownloadedFiles(fetched) == {split(fetched[i])[2] : i \in DOMAIN fetched}

\* how a helper of stage_job_resources ends: the names it returns, the
\* calls it made, and the exception that leaves it ("none": it returns)
Result(staged, calls, raises) ==
  [staged |-> staged, calls |-> calls, raises |-> raises]

\* a bug that forgets the downloaded packages
extend_without_listing(local_packages, listing) == local_packages

\* lines 373-376 and 441-444: local_packages.extend(os.listdir(staging_temp_dir))
extend_with_listing(local_packages, listing) ==
  local_packages \o [i \in DOMAIN listing |-> join(staging_temp_dir, listing[i])]

Basenames(packages) == [i \in DOMAIN packages |-> basename(packages[i])]

\* tempfile.mkdtemp(dir=temp_dir)
Mkdtemp(step) == Event("mkdtemp", staging_temp_dir, step, "ok")

ExtraOptions == {None} \cup {Some(s) : s \in ExtraInputs}

\* lines 204-209 and 386-468
StageExtraPackages ==
  /\ pc = "extra"
  /\ \E ep \in ExtraOptions :
       /\ options' = [options EXCEPT !.extra_packages = ep]
       /\ IF ~ep.set
            THEN Goto(following("extra"), <<>>) /\ UNCHANGED <<resources, manifest>>
            ELSE \E failAt \in 0..Len(ep.val), kind \in ErrorKinds :
              LET scan == ScanPackages(ep.val, "extra", failAt, Len(ep.val))
                  before == <<Mkdtemp("extra")>>
                              \o DownloadEvents(scan.fetched, "extra", scan.st)
              IN IF scan.st = "download_failed"
                   THEN Raise("extra", kind, before) /\ UNCHANGED <<resources, manifest>>
                 ELSE IF scan.st # "ok"
                   THEN Raise("extra", "RuntimeError", before)
                        /\ UNCHANGED <<resources, manifest>>
                 ELSE \E listing \in Orders(DownloadedFiles(scan.fetched)) :
                   LET local_packages == extend_with_listing(scan.local_packages, listing)
                       names == Basenames(local_packages)
                   IN \E k \in 0..(Len(names) + 1) :
                        LET calls == StageRun(Append(names, EXTRA_PACKAGES_FILE), "extra", k)
                        IN /\ manifest' = IF k = 0 \/ k = Len(names) + 1
                                            THEN Some(names) ELSE manifest
                           /\ IF k = 0
                                THEN /\ Goto(following("extra"), before \o calls)
                                     /\ resources' = resources \o Append(names, EXTRA_PACKAGES_FILE)
                                ELSE /\ Raise("extra", kind, before \o calls)
                                     /\ UNCHANGED resources
  /\ UNCHANGED <<temp_exists, cache, downloaded, pip_log>>

JarOptions == {None} \cup {Some(s) : s \in JarInputs}

\* lines 334-384: the ways _stage_jar_packages(jar_packages) can end when
\* the download of package failAt raises (0: none does) and a failing
\* collaborator raises `kind`
stage_jar_packages(packages, failAt, kind) ==
  LET scan == ScanPackages(packages, "jar", failAt, Len(packages))
      before == <<Mkdtemp("jar")>> \o DownloadEvents(scan.fetched, "jar", scan.st)
      staging(names) ==
        {IF k = 0 THEN Result(names, before \o StageRun(names, "jar", 0), "none")
                  ELSE Result(<<>>, before \o StageRun(names, "jar", k), kind) :
           k \in 0..Len(names)}
  IN IF scan.st = "download_failed" THEN {Result(<<>>, before, kind)}
     ELSE IF scan.st # "ok" THEN {Result(<<>>, before, "RuntimeError")}
     ELSE UNION {staging(Basenames(extend_with_listing(scan.local_packages, listing))) :
                   listing \in Orders(DownloadedFiles(scan.fetched))}

JarResults(packages) ==
  UNION {stage_jar_packages(packages, failAt, kind) :
           failAt \in 0..Len(packages), kind \in ErrorKinds}

\* lines 211-217 and 334-384
StageJarPackages ==
  /\ pc = "jar"
  /\ \E jp \in JarOptions :
       /\ options' = [options EXCEPT !.jar_packages = jp]
       /\ IF ~jp.set
            THEN Goto(following("jar"), <<>>) /\ UNCHANGED resources
            ELSE \E r \in JarResults(jp.val) :
                   IF r.raises = "none"
                     THEN /\ Goto(following("jar"), r.calls)
                          /\ resources' = resources \o r.staged
                     ELSE /\ Raise("jar", r.raises, r.calls)
                          /\ UNCHANGED resources
  /\ UNCHANGED <<temp_exists, cache, downloaded, pip_log, manifest>>

----------------------------------------------------------------------------
(* Lines 219-230: the pickled main session.                                *)

StageMainSession ==
  /\ pc = "session"
  /\ \E save \in BOOLEAN :
       /\ options' = [options EXCEPT !.save_main_session = save]
       /\ IF ~save
            THEN Goto(following("session"), <<>>) /\ UNCHANGED resources
            ELSE \E dumped \in {"ok", "raised"}, k \in 0..1, kind \in ErrorKinds :
                   LET dump == <<Event("dump_session",
                                       join(TempDir, PICKLED_MAIN_SESSION_FILE),
                                       "session", dumped)>>
                       calls == StageRun(<<PICKLED_MAIN_SESSION_FILE>>, "session", k)
                   IN IF dumped # "ok"
                        THEN Raise("session", kind, dump) /\ UNCHANGED resources
                        ELSE IF k = 0
                          THEN /\ Goto(following("session"), dump \o calls)
                               /\ resources' = Append(resources, PICKLED_MAIN_SESSION_FILE)
                          ELSE /\ Raise("session", kind, dump \o calls)
                               /\ UNCHANGED resources
  /\ UNCHANGED <<temp_exists, cache, downloaded, pip_log, manifest>>

----------------------------------------------------------------------------
(* Lines 232-285 and 533-693: the SDK.                                     *)

SdkInputs ==
  {SdkDefault, SdkContainer, SdkEmpty, SdkRemoteTar, SdkRemoteWhl,
   SdkRemoteOddWhl, SdkLocalTar, SdkLocalWhl, SdkLocalOddWhl, SdkLocalDir,
   SdkLocalMissing}

\* wheel_filename.startswith('apache_beam')
startswith_apache_beam(name) == name.stem \in {"apache_beam-2", "apache_beam-2-cp"}

\* Stager._desired_sdk_filename_in_staging_location; the second field says
\* whether it raises 'Unrecognized SDK wheel file'
desired_sdk_filename_in_staging_location(sdk_location) ==
  IF endswith(basename(sdk_location), ".whl")
    THEN LET wheel_filename == split(sdk_location)[2]
         IN IF startswith_apache_beam(wheel_filename)
              THEN [name |-> wheel_filename, raises |-> FALSE]
              ELSE [name |-> wheel_filename, raises |-> TRUE]
    ELSE [name |-> DATAFLOW_SDK_TARBALL_FILE, raises |-> FALSE]

\* Stager.get_sdk_package_name: names.BEAM_PACKAGE_NAME
BEAM_PACKAGE_NAME == "apache-beam"

\* package_name.replace('-', '_')
replace_dash(package_name) ==
  IF package_name = "apache-beam" THEN "apache_beam" ELSE package_name

\* lines 661-678: the file _download_pypi_sdk_package expects in temp_dir
expected_file(package_name, fetch_binary) ==
  IF fetch_binary
    THEN join(TempDir, Name(IF replace_dash(package_name) = "apache_beam"
                              THEN "apache_beam-2-cp" ELSE "other-2-cp", ".whl"))
    ELSE join(TempDir, Name(IF package_name = "apache-beam"
                              THEN "apache-beam-2" ELSE "other-2", ".zip"))

\* what a run of _download_pypi_sdk_package can end with: the expected file,
\* no installed distribution, a failed pip subprocess, or no expected file
PypiOutcomes == {"ok", "DistributionNotFound", "CalledProcessError", "missing"}

PypiEvent(fetch_binary, out) ==
  Event(IF fetch_binary THEN "pypi_binary" ELSE "pypi_source",
        expected_file(BEAM_PACKAGE_NAME, fetch_binary), "sdk", out)

\* a bug that lists the binary distribution although staging it raised
stage_binary_sdk_listing_failed(sdk_sources_staged_name, before, bin, k2, kind2) ==
  LET binary == desired_sdk_filename_in_staging_location(
                  expected_file(BEAM_PACKAGE_NAME, TRUE))
      e2 == <<PypiEvent(TRUE, bin)>>
      s2 == StageRun(<<binary.name>>, "sdk", k2)
  IN IF bin # "ok" \/ binary.raises
       THEN Result(<<sdk_sources_staged_name>>, before \o e2, "none")
     ELSE Result(<<sdk_sources_staged_name, binary.name>>, before \o e2 \o s2,
                 IF k2 # 0 /\ kind2 # "RuntimeError" THEN kind2 ELSE "none")

\* lines 577-600: the binary distribution, staged on a best-effort basis
\* after the source distribution sdk_sources_staged_name was staged
stage_binary_sdk(sdk_sources_staged_name, before, bin, k2, kind2) ==
  LET binary == desired_sdk_filename_in_staging_location(
                  expected_file(BEAM_PACKAGE_NAME, TRUE))
      e2 == <<PypiEvent(TRUE, bin)>>
      s2 == StageRun(<<binary.name>>, "sdk", k2)
  IN IF bin # "ok" \/ binary.raises
       THEN Result(<<sdk_sources_staged_name>>, before \o e2, "none")
     ELSE IF k2 # 0
       THEN Result(<<sdk_sources_staged_name>>, before \o e2 \o s2,
                   IF kind2 = "RuntimeError" THEN "none" ELSE kind2)
     ELSE Result(<<sdk_sources_staged_name, binary.name>>, before \o e2 \o s2, "none")

\* a bug that treats a failed source download as the best-effort step
stage_beam_sdk_pypi_lenient(src, k1, kind1, bin, k2, kind2) ==
  LET source == desired_sdk_filename_in_staging_location(
                  expected_file(BEAM_PACKAGE_NAME, FALSE))
      e1 == <<PypiEvent(FALSE, src)>>
      s1 == StageRun(<<source.name>>, "sdk", k1)
  IN IF src # "ok" \/ source.raises THEN Result(<<>>, e1, "none")
     ELSE IF k1 # 0 THEN Result(<<>>, e1 \o s1, kind1)
     ELSE stage_binary_sdk(source.name, e1 \o s1, bin, k2, kind2)

\* lines 569-602: _stage_beam_sdk('pypi').  The result names what was staged,
\* the calls made, and the exception that leaves it ("none": it returns).
stage_beam_sdk_pypi(src, k1, kind1, bin, k2, kind2) ==
  LET source == desired_sdk_filename_in_staging_location(
                  expected_file(BEAM_PACKAGE_NAME, FALSE))
      e1 == <<PypiEvent(FALSE, src)>>
      s1 == StageRun(<<source.name>>, "sdk", k1)
  IN IF src # "ok" \/ source.raises THEN Result(<<>>, e1, "RuntimeError")
     ELSE IF k1 # 0 THEN Result(<<>>, e1 \o s1, kind1)
     ELSE stage_binary_sdk(source.name, e1 \o s1, bin, k2, kind2)

\* lines 603-612: _stage_beam_sdk(remote location)
stage_beam_sdk_remote(sdk_remote_location, got, k, kind) ==
  LET e1 == <<Event("download", sdk_remote_location, "sdk", got)>>
      staged_name == desired_sdk_filename_in_staging_location(sdk_remote_location)
      s1 == StageRun(<<staged_name.name>>, "sdk", k)
  IN IF got # "ok" THEN Result(<<>>, e1, kind)
     ELSE IF staged_name.raises THEN Result(<<>>, e1, "RuntimeError")
     ELSE IF k # 0 THEN Result(<<>>, e1 \o s1, kind)
     ELSE Result(<<staged_name.name>>, e1 \o s1, "none")

\* a bug that treats an empty sdk_location as a missing SDK file
stage_local_sdk_empty_fatal(sdk_location, k, kind) ==
  LET sdk_path == IF isdir(sdk_location)
                    THEN join(sdk_location, DATAFLOW_SDK_TARBALL_FILE)
                    ELSE sdk_location
      staged_name == desired_sdk_filename_in_staging_location(sdk_location)
      staged_path == join(staging_location, staged_name.name)
      s1 == StageRun(<<staged_name.name>>, "sdk", k)
  IN IF isfile(sdk_path)
       THEN IF staged_name.raises THEN Result(<<>>, <<>>, "RuntimeError")
            ELSE IF k # 0 THEN Result(<<>>, s1, kind)
            ELSE Result(<<split(staged_path)[2]>>, s1, "none")
       ELSE Result(<<>>, <<>>, "RuntimeError")

\* lines 255-285: sdk_location is a local path
stage_local_sdk(sdk_location, k, kind) ==
  LET sdk_path == IF isdir(sdk_location)
                    THEN join(sdk_location, DATAFLOW_SDK_TARBALL_FILE)
                    ELSE sdk_location
      staged_name == desired_sdk_filename_in_staging_location(sdk_location)
      staged_path == join(staging_location, staged_name.name)
      s1 == StageRun(<<staged_name.name>>, "sdk", k)
  IN IF isfile(sdk_path)
       THEN IF staged_name.raises THEN Result(<<>>, <<>>, "RuntimeError")
            ELSE IF k # 0 THEN Result(<<>>, s1, kind)
            ELSE Result(<<split(staged_path)[2]>>, s1, "none")
       ELSE IF sdk_location = SdkDefault THEN Result(<<>>, <<>>, "RuntimeError")
            ELSE IF sdk_location = SdkEmpty THEN Result(<<>>, <<>>, "none")
            ELSE Result(<<>>, <<>>, "RuntimeError")

\* a bug that takes 'container' for a local path
SdkResultsContainerAsPath(sl) ==
  IF ~sl.set THEN {Result(<<>>, <<>>, "none")}
  ELSE IF sl.val = SdkDefault
    THEN {stage_beam_sdk_pypi(src, k1, kind1, bin, k2, kind2) :
            src \in PypiOutcomes, k1 \in 0..1, kind1 \in ErrorKinds,
            bin \in PypiOutcomes, k2 \in 0..1, kind2 \in ErrorKinds}
  ELSE IF is_remote_path(sl.val)
    THEN {stage_beam_sdk_remote(sl.val, got, k, kind) :
            got \in {"ok", "raised"}, k \in 0..1, kind \in ErrorKinds}
  ELSE {stage_local_sdk(sl.val, k, kind) : k \in 0..1, kind \in ErrorKinds}

\* lines 232-285: every way the SDK block can end for the option value sl
\* (None: the options have no sdk_location attribute)
SdkResults(sl) ==
  IF ~sl.set THEN {Result(<<>>, <<>>, "none")}
  ELSE IF sl.val = SdkDefault
    THEN {stage_beam_sdk_pypi(src, k1, kind1, bin, k2, kind2) :
            src \in PypiOutcomes, k1 \in 0..1, kind1 \in ErrorKinds,
            bin \in PypiOutcomes, k2 \in 0..1, kind2 \in ErrorKinds}
  ELSE IF is_remote_path(sl.val)
    THEN {stage_beam_sdk_remote(sl.val, got, k, kind) :
            got \in {"ok", "raised"}, k \in 0..1, kind \in ErrorKinds}
  ELSE IF sl.val = SdkContainer THEN {Result(<<>>, <<>>, "none")}
  ELSE {stage_local_sdk(sl.val, k, kind) : k \in 0..1, kind \in ErrorKinds}

SdkOptions == {None} \cup {Some(l) : l \in SdkInputs}

StageSdk ==
  /\ pc = "sdk"
  /\ \E sl \in SdkOptions :
       \E r \in SdkResults(sl) :
          /\ options' = [options EXCEPT !.has_sdk_location = sl.set,
                                        !.sdk_location = sl]
          /\ IF r.raises = "none"
               THEN /\ Goto(following("sdk"), r.calls)
                    /\ resources' = resources \o r.staged
               ELSE /\ Raise("sdk", r.raises, r.calls)
                    /\ UNCHANGED resources
  /\ UNCHANGED <<temp_exists, cache, downloaded, pip_log, manifest>>

----------------------------------------------------------------------------
(* Lines 287-298: the worker jar, the cleanup and the manifest.            *)

StageWorkerJar ==
  /\ pc = "worker_jar"
  /\ \E jar \in {None, Some(WorkerJar)} :
       /\ options' = [options EXCEPT !.dataflow_worker_jar = jar]
       /\ IF ~jar.set
            THEN Goto(following("worker_jar"), <<>>) /\ UNCHANGED resources
            ELSE \E k \in 0..1 :
                   LET calls == StageRun(<<DATAFLOW_WORKER_JAR>>, "worker_jar", k)
                   IN IF k = 0
                        THEN /\ Goto(following("worker_jar"), calls)
                             /\ resources' = Append(resources, DATAFLOW_WORKER_JAR)
                        ELSE /\ \E kind \in ErrorKinds :
                                  Raise("worker_jar", kind, calls)
                             /\ UNCHANGED resources
  /\ UNCHANGED <<temp_exists, cache, downloaded, pip_log, manifest>>

Tokens == {"token-1", "token-2"}

\* what commit_manifest can end with: a retrieval token or an exception
CommitOutcomes == Tokens \cup {"raised"}

\* the calls of lines 296-297: shutil.rmtree(temp_dir), then commit_manifest()
finish_calls(out) ==
  <<Event("rmtree", TempDir, "cleanup", "ok"),
    Event("commit_manifest", staging_location, "cleanup", out)>>

\* line 298: the token stage_job_resources returns
retrieval_token(out) == out

\* lines 295-298: remove the temp directory, commit the manifest and return
\* (retrieval_token, resources)
Finish ==
  /\ pc = "cleanup"
  /\ temp_exists' = FALSE
  /\ \E out \in CommitOutcomes :
       IF out = "raised"
         THEN \E kind \in ErrorKinds : Raise("cleanup", kind, finish_calls(out))
         ELSE /\ pc' = "done"
              /\ token' = retrieval_token(out)
              /\ events' = events \o finish_calls(out)
              /\ UNCHANGED <<error, at>>
              /\ UNCHANGED <<jarVars, licenseVars>>
  /\ UNCHANGED <<resources, cache, downloaded, pip_log, manifest, options>>

----------------------------------------------------------------------------

Next ==
  \/ Begin
  \/ StageRequirementsFile
  \/ PopulateRequirementsCache
  \/ StageCacheFiles
  \/ StageSetupFile
  \/ StageExtraPackages
  \/ StageJarPackages
  \/ StageMainSession
  \/ StageSdk
  \/ StageWorkerJar
  \/ Finish

Spec == Init /\ [][Next]_vars

----------------------------------------------------------------------------
(* Lines 334-384: _stage_jar_packages run more than once on one list.      *)

MaxRuns == 2

RemoteJarB == Path("gs", Dir("y"), Name("ext", ".jar"))

JarRunUniverse == JarUniverse \cup {RemoteJarB}

JarRunInputs == {s \in SeqsUpTo(JarRunUniverse, MaxPkgs) : NoRepeat(s)}

InitJars ==
  /\ StagerInit
  /\ LicensesIdle
  /\ jar_packages \in JarRunInputs
  /\ jar_runs = <<>>

\* one more run of _stage_jar_packages(jar_packages, temp_dir), each with a
\* staging_temp_dir of its own
RunStageJarPackages ==
  /\ Len(jar_runs) < MaxRuns
  /\ \E r \in JarResults(jar_packages) : jar_runs' = Append(jar_runs, r)
  /\ UNCHANGED <<stagerVars, jar_packages, licenseVars>>

NextJars == RunStageJarPackages

SpecJars == InitJars /\ [][NextJars]_vars

----------------------------------------------------------------------------
(* pull_licenses_py.py: copy_license_files (lines 51-67), pull_from_url    *)
(* (lines 70-118) and the main block (lines 121-152).                      *)

MaxDeps == 2

\* the packages pip-licenses can report, in the order it reports them
PackageNames == <<"attrs", "PyYAML", "six">>

\* str.lower
lower(string) ==
  CASE string = "PyYAML" -> "pyyaml"
    [] string = "UNKNOWN" -> "unknown"
    [] OTHER -> string

\* dep['LicenseFile']: the license file pip-licenses found, or 'UNKNOWN'
LicenseFiles == {"UNKNOWN", "/site-packages/pkg/LICENSE"}

Dependency(name, license_file) == [Name |-> name, LicenseFile |-> license_file]

Increasing(s) == \A i, j \in DOMAIN s : i < j => s[i] < s[j]

\* what run_pip_licenses() can return: up to MaxDeps of the packages
DependencyLists ==
  UNION {{[i \in 1..k |-> Dependency(PackageNames[places[i]], files[i])] :
            places \in {f \in [1..k -> DOMAIN PackageNames] : Increasing(f)},
            files \in [1..k -> LicenseFiles]} :
         k \in 0..MaxDeps}

\* an entry of pip_dependencies in dep_urls_py.yaml
Configs ==
  {[license |-> "skip", notice |-> FALSE], [license |-> "manual", notice |-> FALSE],
   [license |-> "url", notice |-> FALSE], [license |-> "url", notice |-> TRUE]}

DepConfigs ==
  UNION {[keys -> Configs] :
           keys \in SUBSET {lower(PackageNames[i]) : i \in DOMAIN PackageNames}}

InitLicenses ==
  /\ StagerInit
  /\ JarsIdle
  /\ lpc = "start"
  /\ dependencies \in DependencyLists
  /\ dep_config \in DepConfigs
  /\ dep_index = 0
  /\ attempt_number = 0
  /\ no_licenses = <<>>
  /\ license_dir = <<>>
  /\ temp_dirs = {}
  /\ raised = NoException
  /\ license_calls = <<>>

\* a run of copy_license_files or an attempt of pull_from_url for `dep`:
\* how its fetch went and how it ended
LicenseCall(op, dep, attempt, fetch, out) ==
  [op |-> op, dep |-> dep, attempt |-> attempt, fetch |-> fetch, out |-> out]

\* the name the loop body works on
CurrentDep == lower(dependencies[dep_index].Name)

\* lines 121-134: the license directory is made, the configuration is
\* loaded, pip-licenses is run and the loop is entered
StartLicenses ==
  /\ lpc = "start"
  /\ dep_index' = 1
  /\ lpc' = IF dependencies = <<>> THEN "report" ELSE "copy"
  /\ UNCHANGED <<dependencies, dep_config, attempt_number, no_licenses,
                 license_dir, temp_dirs, raised, license_calls>>
  /\ UNCHANGED <<stagerVars, jarVars>>

\* lines 134-137: the loop body is over for the current dependency, which
\* is appended to no_licenses when neither call returned True
NextDependency(missing) ==
  /\ no_licenses' = IF missing THEN Append(no_licenses, CurrentDep)
                               ELSE no_licenses
  /\ dep_index' = dep_index + 1
  /\ lpc' = IF dep_index < Len(dependencies) THEN "copy" ELSE "report"
  /\ attempt_number' = 0

\* what the file system does to copy_license_files: both calls work,
\* os.mkdir raises, or shutil.copy raises
CopyOutcomes == {"ok", "mkdir_raised", "copy_raised"}

\* lines 52-67: whether copy_license_files returns True, whether it made
\* dest_dir and the files it put there.  It catches every exception.
copy_license_files(dep, outcome) ==
  IF lower(dep.LicenseFile) = "unknown"
    THEN [returns |-> FALSE, made |-> FALSE, files |-> {}]
  ELSE IF outcome = "mkdir_raised"
    THEN [returns |-> FALSE, made |-> FALSE, files |-> {}]
  ELSE IF outcome = "copy_raised"
    THEN [returns |-> FALSE, made |-> TRUE, files |-> {}]
  ELSE [returns |-> TRUE, made |-> TRUE, files |-> {"LICENSE"}]

\* lines 135-137, first operand of `or`
CopyLicenseFiles ==
  /\ lpc = "copy"
  /\ \E outcome \in CopyOutcomes :
       LET r == copy_license_files(dependencies[dep_index], outcome)
       IN /\ license_dir' = IF r.made THEN (CurrentDep :> r.files) @@ license_dir
                                      ELSE license_dir
          /\ license_calls' =
               Append(license_calls,
                      LicenseCall("copy_license_files", CurrentDep, 1, "none",
                                  IF r.returns THEN "True" ELSE "False"))
          /\ IF r.returns
               THEN NextDependency(FALSE)
               ELSE /\ lpc' = "pull"
                    /\ attempt_number' = 0
                    /\ UNCHANGED <<dep_index, no_licenses>>
  /\ UNCHANGED <<dependencies, dep_config, temp_dirs, raised>>
  /\ UNCHANGED <<stagerVars, jarVars>>

\* what the network and the file system do to one attempt of pull_from_url:
\* nothing, the manual copy or the license download raises, or the notice
\* download raises
FetchOutcomes == {"ok", "license_raised", "notice_raised"}

\* lines 86-108: the try block.  files is what cur_temp_dir holds at its
\* end; shutil.copytree raises when dest_dir exists already.
pull_try_block(config, fetch, dest_exists) ==
  LET files == (IF config.license = "skip" THEN {} ELSE {"LICENSE"})
                 \cup (IF config.notice THEN {"NOTICE"} ELSE {})
  IN IF config.license # "skip" /\ fetch = "license_raised"
       THEN [error |-> "fetch_raised", files |-> {}]
     ELSE IF config.notice /\ fetch = "notice_raised"
       THEN [error |-> "fetch_raised", files |-> {}]
     ELSE IF files # {} /\ dest_exists
       THEN [error |-> "copytree_raised", files |-> {}]
     ELSE [error |-> "none", files |-> files]

\* line 112: e.decode('utf-8') is evaluated for the message of the except
\* clause; an exception object has no attribute decode
decode_raises == TRUE

\* lines 109-116: the except clause assigns result = False after the
\* message is printed; the finally clause returns result, which is unbound
\* when the message could not be built
pull_except_finally == IF decode_raises THEN "UnboundLocalError" ELSE "False"

\* lines 71-118: one attempt of pull_from_url(dep, configs)
pull_from_url(dep, configs, fetch, dest_exists) ==
  IF dep \in DOMAIN configs
    THEN LET tried == pull_try_block(configs[dep], fetch, dest_exists)
         IN IF tried.error = "none"
              THEN [out |-> "True", fetch |-> "ok", files |-> tried.files,
                    made_temp |-> {dep}, removed_temp |-> {dep}]
              ELSE [out |-> pull_except_finally, fetch |-> tried.error,
                    files |-> {}, made_temp |-> {dep}, removed_temp |-> {dep}]
    ELSE [out |-> "False", fetch |-> "none", files |-> {},
          made_temp |-> {}, removed_temp |-> {}]

max_attempt_number == 3

\* a retry decorator that allows one attempt more
stop_after_one_more(attempt) == attempt >= max_attempt_number + 1

\* lines 51 and 70: tenacity's stop_after_attempt(3)
stop_after_attempt(attempt) == attempt >= max_attempt_number

\* lines 135-137, second operand of `or`: one attempt the retry decorator
\* makes of pull_from_url.  An attempt that raises is made again unless
\* stop_after_attempt says stop, and then RetryError leaves the call.
PullFromUrl ==
  /\ lpc = "pull"
  /\ \E fetch \in FetchOutcomes :
       LET r == pull_from_url(CurrentDep, dep_config, fetch,
                              CurrentDep \in DOMAIN license_dir)
           n == attempt_number + 1
       IN /\ license_calls' =
               Append(license_calls,
                      LicenseCall("pull_from_url", CurrentDep, n, r.fetch, r.out))
          /\ temp_dirs' = (temp_dirs \cup r.made_temp) \ r.removed_temp
          /\ license_dir' = IF r.files # {} THEN (CurrentDep :> r.files) @@ license_dir
                                           ELSE license_dir
          /\ IF r.out = "True" THEN NextDependency(FALSE) /\ UNCHANGED raised
             ELSE IF r.out = "False" THEN NextDependency(TRUE) /\ UNCHANGED raised
             ELSE IF stop_after_attempt(n)
               THEN /\ lpc' = "failed"
                    /\ raised' = [type |-> "RetryError", license_list |-> <<>>]
                    /\ attempt_number' = n
                    /\ UNCHANGED <<dep_index, no_licenses>>
               ELSE /\ attempt_number' = n
                    /\ UNCHANGED <<lpc, dep_index, no_licenses, raised>>
  /\ UNCHANGED <<dependencies, dep_config>>
  /\ UNCHANGED <<stagerVars, jarVars>>

\* lines 139-152: the script ends, with RuntimeError when no_licenses is
\* not empty
ReportLicenses ==
  /\ lpc = "report"
  /\ IF no_licenses # <<>>
       THEN /\ lpc' = "failed"
            /\ raised' = [type |-> "RuntimeError", license_list |-> no_licenses]
       ELSE /\ lpc' = "done"
            /\ UNCHANGED raised
  /\ UNCHANGED <<dependencies, dep_config, dep_index, attempt_number,
                 no_licenses, license_dir, temp_dirs, license_calls>>
  /\ UNCHANGED <<stagerVars, jarVars>>

NextLicenses ==
  \/ StartLicenses
  \/ CopyLicenseFiles
  \/ PullFromUrl
  \/ ReportLicenses

SpecLicenses == InitLicenses /\ [][NextLicenses]_vars

----------------------------------------------------------------------------
(* Properties of stage_job_resources.                                      *)

Returned == pc = "done"

Failed == pc = "failed"

CommitEvents == EventsOf("commit_manifest")

\* the file names stage_artifact was called for, in call order
Destinations(calls) == [i \in DOMAIN calls |-> calls[i].path]

StagedAt(names) == [i \in DOMAIN names |-> join(staging_location, names[i])]

CompletedStageEvents == SelectSeq(StageEvents, LAMBDA e : e.out = "ok")

\* C1: commit_manifest is called exactly once by a call that returns, after
\* the last stage_artifact call, and the token it gives is the token
\* returned; a call that a validation, build, download or stage_artifact
\* step leaves with an exception never calls it.
C1_CommitOnceAtEnd ==
  /\ Returned =>
       /\ Len(CommitEvents) = 1
       /\ events[Len(events)].op = "commit_manifest"
       /\ token = events[Len(events)].out
  /\ ~Returned /\ ~(Failed /\ at = "cleanup") => Len(CommitEvents) = 0

C1_Witness ==
  Returned /\ Len(StageEvents) >= 2 /\ token = "token-2"

\* C2: the temp directory is gone on every way out of the call, after a
\* return and after any exception.
C2_TempDirRemovedOnExit == (Returned \/ Failed) => ~temp_exists

\* C3 as stated: after a successful return the returned names are the
\* destinations of the stage_artifact calls made, one entry per call, in
\* call order.
C3_EveryCallListed ==
  Returned => Destinations(StageEvents) = StagedAt(resources)

\* C3: after a successful return the returned names are the destinations
\* of the stage_artifact calls that completed, one entry per such call, in
\* call order.
C3_EveryCompletedCallListed ==
  Returned => Destinations(CompletedStageEvents) = StagedAt(resources)

C3_Witness ==
  /\ Returned
  /\ Len(resources) >= 3
  /\ \E i \in DOMAIN StageEvents : StageEvents[i].out = "raised"

\* C4: after a successful return no name is listed twice and no two
\* stage_artifact calls wrote to the same destination.
C4_NoNameTwice ==
  Returned => NoRepeat(resources) /\ NoRepeat(Destinations(CompletedStageEvents))

\* C5: the lines of extra_packages.txt are the basenames of the extra
\* packages in the order of the input list.
C5_ManifestKeepsInputOrder ==
  manifest.set => manifest.val = Basenames(options.extra_packages.val)

EventsIn(step) == SelectSeq(events, LAMBDA e : e.step = step)

HasBadExtraPackage ==
  /\ options.extra_packages.set
  /\ \E i \in DOMAIN options.extra_packages.val :
       ~extra_package_name_ok(options.extra_packages.val[i])

\* C6: a list of extra packages that holds a package with an unsupported
\* extension makes the call fail before any download, before the temp
\* sub-directory is made and before any extra package is staged.
C6_RejectedBeforeAnyActivity ==
  HasBadExtraPackage =>
    /\ Failed /\ at = "extra" /\ error = "RuntimeError"
    /\ EventsIn("extra") = <<>>

\* the default SDK was asked for and its source distribution was not obtained
DefaultSdkNotObtained ==
  /\ options.sdk_location = Some(SdkDefault)
  /\ \E i \in DOMAIN events :
       events[i].op = "pypi_source" /\ events[i].out # "ok"

\* C7 as stated: when the default SDK cannot be obtained the call raises a
\* fatal error and no stage_artifact call has been made during the call.
C7_NothingStaged ==
  DefaultSdkNotObtained =>
    Failed /\ error = "RuntimeError" /\ StageEvents = <<>>

\* C7: when the default SDK cannot be obtained the call raises a fatal
\* error from the SDK step, no SDK file has been staged and the manifest is
\* not committed; the calls of the earlier steps stay as made.
C7_NoSdkStagedNoCommit ==
  DefaultSdkNotObtained =>
    /\ Failed /\ error = "RuntimeError" /\ at = "sdk"
    /\ \A i \in DOMAIN events :
         events[i].op = "stage_artifact" => events[i].step # "sdk"
    /\ CommitEvents = <<>>
    /\ events[Len(events)].op = "pypi_source"

C7_Witness ==
  /\ DefaultSdkNotObtained
  /\ Failed
  /\ \E i, j \in DOMAIN StageEvents :
       StageEvents[i].step = "requirements" /\ StageEvents[j].step = "session"

RequirementsBlockOver ==
  /\ options.requirements_file.set
  /\ pc \notin {"start", "requirements", "populate", "stage_cache", "failed"}

RequirementsCalls ==
  SelectSeq(CompletedStageEvents,
            LAMBDA e : e.step \in {"requirements", "stage_cache"})

\* the entries the requirements block put in the list are requirements.txt
\* and then one entry for each file of the set `files`
RequirementsEntriesAre(files) ==
  LET n == 1 + Cardinality(files)
  IN /\ Len(RequirementsCalls) = n
     /\ Len(resources) >= n
     /\ StagedAt(SubSeq(resources, 1, n)) = Destinations(RequirementsCalls)
     /\ resources[1] = REQUIREMENTS_FILE
     /\ {resources[i] : i \in 2..n} = files

\* C8: with a requirements file the list holds requirements.txt and
\* one entry per file this call's download produced, and nothing else from
\* the requirements step.
C8_OnlyDownloadedListed ==
  RequirementsBlockOver => RequirementsEntriesAre(downloaded)

IsNonZeroExit(out) == out.type = "CalledProcessError" /\ out.returncode # 0

Last(s) == s[Len(s)]

StepOrder ==
  <<"requirements", "stage_cache", "setup", "extra", "jar", "session", "sdk",
    "worker_jar">>

Rank(step) == CHOOSE i \in DOMAIN StepOrder : StepOrder[i] = step

\* the names a step may stage, EXTRA_PACKAGES_FILE being the last of its step
StepNamesOk ==
  LET calls == StageEvents IN
  \A i \in DOMAIN calls :
    LET e == calls[i]
        name == split(e.path)[2]
        lastOfStep == i = Len(calls) \/ calls[i + 1].step # e.step
    IN /\ e.step = "requirements" => name = REQUIREMENTS_FILE
       /\ e.step = "setup" => name = WORKFLOW_TARBALL_FILE
       /\ e.step = "session" => name = PICKLED_MAIN_SESSION_FILE
       /\ e.step = "worker_jar" => name = DATAFLOW_WORKER_JAR
       /\ e.step = "jar" => endswith(name, ".jar")
       /\ e.step = "extra" /\ ~lastOfStep => name # EXTRA_PACKAGES_FILE
       /\ e.step = "extra" /\ lastOfStep /\ e.out = "ok" /\ pc # "failed" =>
            name = EXTRA_PACKAGES_FILE

\* a step whose input is unset stages nothing
UnsetStepsSkipped ==
  LET calls == StageEvents IN
  \A i \in DOMAIN calls :
    LET step == calls[i].step
    IN /\ step \in {"requirements", "stage_cache"} => options.requirements_file.set
       /\ step = "setup" => options.setup_file.set
       /\ step = "extra" => options.extra_packages.set
       /\ step = "jar" => options.jar_packages.set
       /\ step = "session" => options.save_main_session
       /\ step = "sdk" => options.sdk_location.set
       /\ step = "worker_jar" => options.dataflow_worker_jar.set

\* C10: the stage_artifact calls are made in the order requirements file,
\* cache files, setup tarball, extra packages then extra_packages.txt, jar
\* packages, pickled session, SDK, worker jar, a step with no input making
\* none, and the returned list is in the order of the calls.
C10_FixedStepOrder ==
  /\ LET calls == StageEvents
     IN \A i \in 1..(Len(calls) - 1) :
          Rank(calls[i].step) <= Rank(calls[i + 1].step)
  /\ StepNamesOk
  /\ UnsetStepsSkipped
  /\ Returned => StagedAt(resources) = Destinations(CompletedStageEvents)

C10_Witness ==
  /\ Returned
  /\ \A s \in DOMAIN StepOrder :
       \E i \in DOMAIN StageEvents : StageEvents[i].step = StepOrder[s]

----------------------------------------------------------------------------
(* The SDK block and the setup file.                                       *)

\* the SDK block ran with sdk_location = l
SdkIs(l) == options.sdk_location = Some(l)

SdkStageCalls == SelectSeq(EventsIn("sdk"), LAMBDA e : e.op = "stage_artifact")

StageEventsOutside(step) ==
  SelectSeq(CompletedStageEvents, LAMBDA e : e.step # step)

\* C11: with sdk_location 'container' the SDK block does nothing: no
\* download, no stage_artifact call and no exception belong to it, the call
\* goes on to the worker jar and the manifest, and the returned names are
\* those of the stage_artifact calls of the other blocks.
C11_ContainerStagesNoSdk ==
  SdkIs(SdkContainer) =>
    /\ EventsIn("sdk") = <<>>
    /\ ~(Failed /\ at = "sdk")
    /\ pc \in {"worker_jar", "cleanup", "done", "failed"}
    /\ Returned =>
         /\ Len(CommitEvents) = 1
         /\ StagedAt(resources) = Destinations(StageEventsOutside("sdk"))

C11_Witness ==
  /\ Returned
  /\ SdkIs(SdkContainer)
  /\ EventsIn("worker_jar") # <<>>
  /\ Len(resources) >= 2

\* sdk_location is a local path: set, not 'default', not 'container', not
\* a remote location
LocalSdkLocation ==
  /\ options.sdk_location.set
  /\ options.sdk_location.val \notin {SdkDefault, SdkContainer}
  /\ ~is_remote_path(options.sdk_location.val)

\* lines 258-261: the file a local sdk_location stands for
ResolvedSdkPath ==
  LET l == options.sdk_location.val
  IN IF isdir(l) THEN join(l, DATAFLOW_SDK_TARBALL_FILE) ELSE l

SdkFatal ==
  /\ Failed /\ at = "sdk" /\ error = "RuntimeError"
  /\ SdkStageCalls = <<>>

SdkStagedOnce(name) ==
  /\ Len(SdkStageCalls) = 1
  /\ SdkStageCalls[1].path = join(staging_location, name)
  /\ SdkStageCalls[1].out = "ok" =>
       /\ ~(Failed /\ at = "sdk")
       /\ ~Failed => \E i \in DOMAIN resources : resources[i] = name

\* C12 as stated: for a local sdk_location, an existing resolved file is
\* staged by one stage_artifact call, an empty value stages nothing and
\* raises nothing, and a missing file is fatal with nothing staged.
C12_LocalSdkAsClaimed ==
  LocalSdkLocation =>
    LET l == options.sdk_location.val
    IN /\ isfile(ResolvedSdkPath) => Len(SdkStageCalls) = 1
       /\ l = SdkEmpty =>
            SdkStageCalls = <<>> /\ ~(Failed /\ at = "sdk")
       /\ l # SdkEmpty /\ ~isfile(ResolvedSdkPath) => SdkFatal

\* C12: for a local sdk_location, an existing resolved file is staged by
\* one stage_artifact call under its staging name unless it is a wheel
\* whose name does not start with apache_beam, which is fatal with nothing
\* staged; an empty value stages nothing and raises nothing; a missing file
\* is fatal with nothing staged.
C12_LocalSdk ==
  LocalSdkLocation =>
    LET l == options.sdk_location.val
        staged_name == desired_sdk_filename_in_staging_location(l)
    IN /\ isfile(ResolvedSdkPath) /\ ~staged_name.raises =>
            SdkStagedOnce(staged_name.name)
       /\ isfile(ResolvedSdkPath) /\ staged_name.raises => SdkFatal
       /\ l = SdkEmpty =>
            SdkStageCalls = <<>> /\ ~(Failed /\ at = "sdk")
       /\ l # SdkEmpty /\ ~isfile(ResolvedSdkPath) => SdkFatal

C12_Witness ==
  /\ Returned
  /\ SdkIs(SdkLocalDir)
  /\ Len(SdkStageCalls) = 1
  /\ \E i \in DOMAIN resources : resources[i] = DATAFLOW_SDK_TARBALL_FILE

\* the source distribution was downloaded and staged and the step for the
\* binary distribution failed, in its download or in its stage_artifact call
WheelStepFailed ==
  LET ev == EventsIn("sdk")
  IN /\ SdkIs(SdkDefault)
     /\ Len(ev) >= 3
     /\ ev[1].op = "pypi_source" /\ ev[1].out = "ok"
     /\ ev[2].op = "stage_artifact" /\ ev[2].out = "ok"
     /\ ev[3].op = "pypi_binary"
     /\ \/ ev[3].out # "ok"
        \/ Len(ev) = 4 /\ ev[4].out = "raised"

\* C13: once the source distribution is staged, no failure of the step for
\* the binary distribution makes the SDK block raise.
C13_WheelFailureOnlyWarns ==
  WheelStepFailed => ~(Failed /\ at = "sdk")

\* the setup file passes the checks of lines 190-197
SetupAccepted ==
  /\ isfile(options.setup_file.val)
  /\ basename(options.setup_file.val) = Name("setup", ".py")

\* C14: a setup file that is missing or not named setup.py is fatal before
\* the sdist subprocess runs and before anything is staged for it; a setup
\* file that is accepted, and for which neither the subprocess nor
\* stage_artifact fails, is staged as one resource named workflow.tar.gz.
C14_SetupFileChecked ==
  options.setup_file.set =>
    LET ev == EventsIn("setup")
        staged == SelectSeq(ev, LAMBDA e : e.op = "stage_artifact")
    IN /\ ~SetupAccepted =>
            Failed /\ at = "setup" /\ error = "RuntimeError" /\ ev = <<>>
       /\ SetupAccepted /\ (\A i \in DOMAIN ev : ev[i].out = "ok") =>
            /\ Len(staged) = 1
            /\ staged[1].path = join(staging_location, WORKFLOW_TARBALL_FILE)
            /\ ~(Failed /\ at = "setup")

----------------------------------------------------------------------------
(* Runs of _stage_jar_packages on one list.                                *)

Range(f) == {f[i] : i \in DOMAIN f}

\* the runs of _stage_jar_packages that returned
ReturnedJarRuns == {i \in DOMAIN jar_runs : jar_runs[i].raises = "none"}

\* C15 as stated: any two runs of _stage_jar_packages on one list that
\* return give the same list of names, the basenames of the input packages
\* in input order.
C15_SameListTwice ==
  \A i, j \in ReturnedJarRuns :
     /\ jar_runs[i].staged = jar_runs[j].staged
     /\ jar_runs[i].staged = Basenames(jar_packages)

\* C15: any two runs of _stage_jar_packages on one list that return give
\* the same set of names, the set of the basenames of the input packages,
\* with the names of the local packages first and in input order.
C15_SameNamesTwice ==
  \A i, j \in ReturnedJarRuns :
     /\ Range(jar_runs[i].staged) = Range(jar_runs[j].staged)
     /\ Range(jar_runs[i].staged) = Range(Basenames(jar_packages))
     /\ LET locals == SelectSeq(jar_packages, isfile)
        IN SubSeq(jar_runs[i].staged, 1, Len(locals)) = Basenames(locals)

C15_Witness ==
  /\ jar_packages = <<RemoteJar, LocalJar>>
  /\ Len(jar_runs) = MaxRuns
  /\ ReturnedJarRuns = DOMAIN jar_runs
  /\ jar_runs[1].staged = <<basename(LocalJar), basename(RemoteJar)>>

----------------------------------------------------------------------------
(* The license script.                                                     *)

LicenseCallsOf(op, dep) ==
  SelectSeq(license_calls, LAMBDA c : c.op = op /\ c.dep = dep)

DependencyNames == {lower(dependencies[i].Name) : i \in DOMAIN dependencies}

\* a call for dep returned True
Licensed(dep) ==
  \E i \in DOMAIN license_calls :
     license_calls[i].dep = dep /\ license_calls[i].out = "True"

ScriptOver == lpc \in {"done", "failed"}

\* C16: when the script ends, copy_license_files was called for every
\* dependency; it ends with a RuntimeError that lists exactly the
\* dependencies for which no call returned True, and without error when
\* there is none.
C16_AllProcessedThenReport ==
  ScriptOver =>
    /\ \A dep \in DependencyNames :
         LicenseCallsOf("copy_license_files", dep) # <<>>
    /\ LET missing == {dep \in DependencyNames : ~Licensed(dep)}
       IN IF missing = {}
            THEN lpc = "done" /\ raised = NoException
            ELSE /\ lpc = "failed"
                 /\ raised.type = "RuntimeError"
                 /\ Range(raised.license_list) = missing

\* C17: pull_from_url is called for a dependency only after
\* copy_license_files returned False for it; it is attempted at most
\* max_attempt_number times, the attempts numbered from 1 without a gap;
\* an attempt whose fetch failed and that is not the last one allowed is
\* followed by the next attempt for the same dependency.
C17_CopyFirstThenBoundedRetries ==
  /\ \A i \in DOMAIN license_calls :
       LET c == license_calls[i]
       IN c.op = "pull_from_url" =>
            /\ c.attempt \in 1..max_attempt_number
            /\ i > 1
            /\ LET b == license_calls[i - 1]
               IN IF c.attempt = 1
                    THEN b = LicenseCall("copy_license_files", c.dep, 1, "none", "False")
                    ELSE /\ b.op = "pull_from_url" /\ b.dep = c.dep
                         /\ b.attempt = c.attempt - 1
                         /\ b.fetch \in {"fetch_raised", "copytree_raised"}
            /\ c.fetch = "fetch_raised" /\ c.attempt < max_attempt_number =>
                 IF i < Len(license_calls)
                   THEN license_calls[i + 1] \in
                          {LicenseCall("pull_from_url", c.dep, c.attempt + 1, f, o) :
                             f \in {"ok", "fetch_raised", "copytree_raised"},
                             o \in {"True", "False", "UnboundLocalError"}}
                   ELSE lpc = "pull" /\ CurrentDep = c.dep
                        /\ attempt_number = c.attempt
  /\ \A dep \in DependencyNames :
       /\ Len(LicenseCallsOf("pull_from_url", dep)) <= max_attempt_number
       /\ Len(LicenseCallsOf("copy_license_files", dep)) <= 1

C17_Witness ==
  \E i \in DOMAIN license_calls :
     /\ i + 2 \in DOMAIN license_calls
     /\ license_calls[i].op = "pull_from_url"
     /\ license_calls[i].attempt = 1
     /\ license_calls[i].fetch = "fetch_raised"
     /\ license_calls[i + 1].fetch = "fetch_raised"
     /\ license_calls[i + 2] =
          LicenseCall("pull_from_url", license_calls[i].dep, max_attempt_number,
                      "ok", "True")

\* C18: an attempt of pull_from_url whose manual copy or download raised
\* returns False, leaves no temp directory and no file in the final
\* directory of the dependency, and the loop goes on: the dependency is in
\* no_licenses and no exception of pull_from_url ends the script.
C18_FailedFetchReturnsFalse ==
  \A i \in DOMAIN license_calls :
     LET c == license_calls[i]
     IN c.op = "pull_from_url" /\ c.fetch = "fetch_raised" =>
          /\ c.out = "False"
          /\ temp_dirs = {}
          /\ c.dep \in DOMAIN license_dir => license_dir[c.dep] = {}
          /\ c.dep \in Range(no_licenses)
          /\ raised.type # "RetryError"

====
